---- MODULE Spec2Model ----
(***************************************************************************)
(* RaySports sales dashboard (src/app.py): a Streamlit script that is run *)
(* from top to bottom once per user interaction.  The state is the source *)
(* spreadsheet, the session (st.session_state and the widget values) and   *)
(* what the last run of the script computed and rendered.                  *)
(***************************************************************************)
EXTENDS Integers, Sequences, FiniteSets, TLC

\* ------------------------------------------------------------------------
\* Bounds of the model
\* ------------------------------------------------------------------------
\* rows of the spreadsheets whose rows are drawn freely
MaxRows == 2
\* brands (one row each) of the spreadsheets built to exceed the top-5 cut
MaxBrands == 6

\* ------------------------------------------------------------------------
\* Program constants
\* ------------------------------------------------------------------------
\* st.slider(min_value=10000, max_value=1000000, value=500000, step=10000)
min_value == 10000
max_value == 1000000
slider_value == 500000
slider_step == 10000
\* brand_sales.nlargest(5, 'Sales Amount')
NTop == 5
\* total_profit / current_sales * 100
Percent == 100

\* the columns load_data selects (line 15)
Columns ==
    {"Invoice Date", "Sales Order Date", "Platform", "Brand", "Order Status",
     "Quantity", "Sales Amount", "Cost Price"}

\* strftime('%b'): the abbreviated month name of month number m
MonthAbbr ==
    <<"Jan", "Feb", "Mar", "Apr", "May", "Jun",
      "Jul", "Aug", "Sep", "Oct", "Nov", "Dec">>

\* ------------------------------------------------------------------------
\* Values the spreadsheet is drawn from
\* ------------------------------------------------------------------------
\* <<Sales Order Date as <<year, month>>, Platform>> of the rows drawn freely
Orders == {<<<<2023, 1>>, "Amazon">>, <<<<2023, 2>>, "eBay">>, <<<<2024, 2>>, "Amazon">>}
\* in the order Python's sorted() gives
PlatformOrder == <<"Amazon", "eBay">>
BrandOrder == <<"Adidas", "Asics", "Fila", "Nike", "Puma", "Reebok", "Umbro", "Vans">>
\* <<Sales Amount, Cost Price>>: a sale and a refund
Amounts == {<<5000, 3000>>, <<-5000, -2000>>}
WideAmounts == {<<5000, 3000>>, <<10000, 6000>>}

Range(s) == {s[i] : i \in DOMAIN s}

\* position of x in the sequence order (the sort key of a string)
Rank(order, x) == CHOOSE i \in DOMAIN order : order[i] = x

RawRow(d, p, b, a) ==
    [SalesOrderDate |-> d, Platform |-> p, Brand |-> b,
     SalesAmount |-> a[1], CostPrice |-> a[2]]

RawRows == {RawRow(o[1], o[2], BrandOrder[1], a) : o \in Orders, a \in Amounts}

SeqsUpTo(S, n) == UNION {[1..k -> S] : k \in 0..n}

GoodFile(rows) == [exists |-> TRUE, readable |-> TRUE, columns |-> Columns, rows |-> rows]

SmallFiles == {GoodFile(rows) : rows \in SeqsUpTo(RawRows, MaxRows)}

\* one row per brand, platforms alternating, all in February 2024, and a
\* second row of the first brand on the other platform
WideFiles ==
    {GoodFile([i \in 1..MaxBrands |->
                 RawRow(<<2024, 2>>, PlatformOrder[1 + (i % 2)], BrandOrder[i], f[i])]
              \o <<RawRow(<<2024, 2>>, PlatformOrder[1], BrandOrder[1], <<5000, 3000>>)>>)
       : f \in [1..MaxBrands -> WideAmounts]}

\* the file is absent; it is not a readable workbook; it has no Brand column
BadFiles ==
    {[exists |-> FALSE, readable |-> FALSE, columns |-> {}, rows |-> <<>>],
     [exists |-> TRUE, readable |-> FALSE, columns |-> {}, rows |-> <<>>],
     [exists |-> TRUE, readable |-> TRUE, columns |-> Columns \ {"Brand"},
      rows |-> <<[SalesOrderDate |-> <<2023, 1>>, Platform |-> "Amazon",
                  SalesAmount |-> 5000, CostPrice |-> 3000]>>]}

Files == SmallFiles \cup WideFiles \cup BadFiles

\* ------------------------------------------------------------------------
\* load_data (lines 12-20)
\* ------------------------------------------------------------------------
\* lines 16-19: the derived columns of row i (idx is the DataFrame index)
Derive(r, i) ==
    [idx |-> i,
     Platform |-> r.Platform, Brand |-> r.Brand,
     SalesAmount |-> r.SalesAmount, CostPrice |-> r.CostPrice,
     Year |-> r.SalesOrderDate[1],
     MonthNum |-> r.SalesOrderDate[2],
     MonthName |-> MonthAbbr[r.SalesOrderDate[2]],
     Profit |-> r.SalesAmount - r.CostPrice]

\* pd.read_excel raises on a missing or unreadable file, df[[...]] raises
\* KeyError on a missing column; the file never changes, so st.cache_data
\* returns what a fresh call would
load_data(f) ==
    IF ~f.exists THEN [ok |-> FALSE, error |-> "FileNotFoundError", df |-> <<>>]
    ELSE IF ~f.readable THEN [ok |-> FALSE, error |-> "ValueError", df |-> <<>>]
    ELSE IF ~(Columns \subseteq f.columns) THEN [ok |-> FALSE, error |-> "KeyError", df |-> <<>>]
    ELSE [ok |-> TRUE, error |-> "",
          df |-> [i \in 1..Len(f.rows) |-> Derive(f.rows[i], i)]]

\* ------------------------------------------------------------------------
\* Sorting and column sums
\* ------------------------------------------------------------------------
RECURSIVE SetToSortedSeq(_)
\* the integers of S in ascending order
SetToSortedSeq(S) ==
    IF S = {} THEN <<>>
    ELSE LET m == CHOOSE x \in S : \A y \in S : x <= y
         IN <<m>> \o SetToSortedSeq(S \ {m})

Reverse(s) == [i \in 1..Len(s) |-> s[Len(s) + 1 - i]]

RECURSIVE SumCol(_, _)
\* view[col].sum(): 0 on an empty view
SumCol(view, col) ==
    IF view = <<>> THEN 0 ELSE view[1][col] + SumCol(Tail(view), col)

\* view[pred]: the rows of view a boolean mask keeps, in view's order
BoolIndex(view, mask) ==
    LET keep == SetToSortedSeq({i \in DOMAIN view : mask[i]})
    IN [k \in 1..Len(keep) |-> view[keep[k]]]

\* ------------------------------------------------------------------------
\* Sidebar helpers (lines 29-36)
\* ------------------------------------------------------------------------
\* line 29: df[['MonthNum','MonthName']].drop_duplicates().sort_values('MonthNum');
\* a pair is encoded by its month number, which load_data makes determine the name
month_lookup(df) ==
    LET nums == SetToSortedSeq({df[i].MonthNum : i \in DOMAIN df})
    IN [k \in 1..Len(nums) |->
          [MonthNum |-> nums[k],
           MonthName |-> (CHOOSE r \in Range(df) : r.MonthNum = nums[k]).MonthName]]

\* line 30
all_months(df) ==
    LET lookup == month_lookup(df)
    IN [k \in 1..Len(lookup) |-> lookup[k].MonthName]

\* the session_state key f"chk_{m}"
Key(m) == <<"chk_", m>>

\* lines 32-33
update_months(ss, months, status) ==
    [k \in DOMAIN ss \cup {Key(m) : m \in Range(months)} |->
        IF k \in {Key(m) : m \in Range(months)} THEN status ELSE ss[k]]

\* line 35: the test that guards the initialisation
NeedsInit(ss) == Key("Jan") \notin DOMAIN ss

\* the initialisation with the checkboxes cleared
InitMonthsUnchecked(ss, months) ==
    IF NeedsInit(ss) THEN update_months(ss, months, FALSE) ELSE ss

\* lines 35-36
InitMonths(ss, months) ==
    IF NeedsInit(ss) THEN update_months(ss, months, TRUE) ELSE ss

\* line 70: st.checkbox(month, key=...) registers a missing key as False
RegisterCheckboxes(ss, months) ==
    [k \in DOMAIN ss \cup {Key(m) : m \in Range(months)} |->
        IF k \in DOMAIN ss THEN ss[k] ELSE FALSE]

\* lines 67-71
selected_months_of(ss, months) == SelectSeq(months, LAMBDA m : ss[Key(m)])

\* lines 58-59, 76-77: the options of the two multiselects (also their defaults)
YearOptions(df) == Reverse(SetToSortedSeq({df[i].Year : i \in DOMAIN df}))
PlatformOptions(df) ==
    LET ranks == SetToSortedSeq({Rank(PlatformOrder, df[i].Platform) : i \in DOMAIN df})
    IN [k \in 1..Len(ranks) |-> PlatformOrder[ranks[k]]]

\* ------------------------------------------------------------------------
\* Filter (line 87)
\* ------------------------------------------------------------------------
isin(v, values) == v \in values

\* the mask with | in place of &
FilterMaskAny(df, years, months, platforms) ==
    [i \in DOMAIN df |->
        \/ isin(df[i].Year, years)
        \/ isin(df[i].MonthName, months)
        \/ isin(df[i].Platform, platforms)]

FilterMask(df, years, months, platforms) ==
    [i \in DOMAIN df |->
        /\ isin(df[i].Year, years)
        /\ isin(df[i].MonthName, months)
        /\ isin(df[i].Platform, platforms)]

filtered_df_of(df, years, months, platforms) ==
    BoolIndex(df, FilterMask(df, years, months, platforms))

\* ------------------------------------------------------------------------
\* Metrics (lines 123-166).  A quotient is kept exact as num/den with
\* den > 0; den = 0 marks the result of a division by zero.
\* ------------------------------------------------------------------------
Rat(n, d) == [num |-> n, den |-> d]
Zero == Rat(0, 1)
One == Rat(1, 1)
DivByZero == Rat(0, 0)

TrueDiv(a, b) ==
    IF b = 0 THEN DivByZero
    ELSE IF b > 0 THEN Rat(a, b) ELSE Rat(-a, -b)

RatTimes(q, k) == Rat(q.num * k, q.den)
RatLess(p, q) == p.num * q.den < q.num * p.den

\* line 126
progress_ratio_of(current_sales, target) ==
    IF target > 0 THEN TrueDiv(current_sales, target) ELSE Zero

\* the margin guarded by >= in place of >
margin_of_nonnegative(total_profit, current_sales) ==
    IF current_sales >= 0 THEN RatTimes(TrueDiv(total_profit, current_sales), Percent)
    ELSE Zero

\* line 152
margin_of(total_profit, current_sales) ==
    IF current_sales > 0 THEN RatTimes(TrueDiv(total_profit, current_sales), Percent)
    ELSE Zero

\* Python's max(a, b) and min(a, b)
PyMax(a, b) == IF b > a THEN b ELSE a
RatMin(p, q) == IF RatLess(q, p) THEN q ELSE p

\* line 159
rem_to_goal_of(target, current_sales) == PyMax(target - current_sales, 0)

\* line 163: the argument of st.progress
progress_arg_of(ratio) == RatMin(ratio, One)

\* st.progress raises StreamlitAPIException unless 0.0 <= value <= 1.0
ProgressRaises(v) == ~(v.den > 0 /\ 0 <= v.num /\ v.num <= v.den)

\* lines 165-166
goal_of(rem, current_sales, target) ==
    IF rem > 0 THEN [label |-> "Gap", amount |-> rem]
    ELSE [label |-> "Surplus", amount |-> current_sales - target]

\* ------------------------------------------------------------------------
\* Aggregations (lines 174, 199-201)
\* ------------------------------------------------------------------------
\* the sort position of a (MonthNum, MonthName) group after sort_values("MonthNum")
MonthCode(r) == r.MonthNum * (Len(MonthAbbr) + 1) + Rank(MonthAbbr, r.MonthName)

\* the monthly totals grouped by year as well
monthly_perf_by_year(view) ==
    LET YearCode(r) == MonthCode(r) * 10000 + r.Year
        codes == SetToSortedSeq({YearCode(view[i]) : i \in DOMAIN view})
    IN [k \in 1..Len(codes) |->
          LET g == SelectSeq(view, LAMBDA r : YearCode(r) = codes[k])
          IN [MonthNum |-> g[1].MonthNum, MonthName |-> g[1].MonthName,
              SalesAmount |-> SumCol(g, "SalesAmount"), Profit |-> SumCol(g, "Profit")]]

\* line 174: groupby(["MonthNum","MonthName"]).sum().sort_values("MonthNum")
monthly_perf_of(view) ==
    LET codes == SetToSortedSeq({MonthCode(view[i]) : i \in DOMAIN view})
    IN [k \in 1..Len(codes) |->
          LET g == SelectSeq(view, LAMBDA r : MonthCode(r) = codes[k])
          IN [MonthNum |-> g[1].MonthNum, MonthName |-> g[1].MonthName,
              SalesAmount |-> SumCol(g, "SalesAmount"), Profit |-> SumCol(g, "Profit")]]

\* line 199: groupby('Brand')['Sales Amount'].sum().reset_index(), brands sorted
brand_sales_of(view) ==
    LET ranks == SetToSortedSeq({Rank(BrandOrder, view[i].Brand) : i \in DOMAIN view})
    IN [k \in 1..Len(ranks) |->
          LET g == SelectSeq(view, LAMBDA r : r.Brand = BrandOrder[ranks[k]])
          IN [Brand |-> BrandOrder[ranks[k]], SalesAmount |-> SumCol(g, "SalesAmount")]]

RemoveAt(s, i) == [k \in 1..(Len(s) - 1) |-> IF k < i THEN s[k] ELSE s[k + 1]]

\* head(n) in place of nlargest: the first n rows as they stand
nfirst(n, tbl) == SubSeq(tbl, 1, IF Len(tbl) < n THEN Len(tbl) ELSE n)

RECURSIVE nlargest(_, _)
\* DataFrame.nlargest(n, 'Sales Amount'): the n rows of greatest amount in
\* descending order, equal amounts in their order of appearance (keep='first')
nlargest(n, tbl) ==
    IF n = 0 \/ tbl = <<>> THEN <<>>
    ELSE LET i == CHOOSE i \in DOMAIN tbl :
                    /\ \A j \in DOMAIN tbl : tbl[j].SalesAmount <= tbl[i].SalesAmount
                    /\ \A j \in 1..(i - 1) : tbl[j].SalesAmount < tbl[i].SalesAmount
         IN <<tbl[i]>> \o nlargest(n - 1, RemoveAt(tbl, i))

\* line 200
top_5_of(view) ==
    LET top == nlargest(NTop, brand_sales_of(view))
    IN [k \in 1..Len(top) |-> top[k].Brand]

PairCode(r) ==
    Rank(BrandOrder, r.Brand) * (Len(PlatformOrder) + 1) + Rank(PlatformOrder, r.Platform)

\* line 201: the rows of the top brands, summed by (Brand, Platform)
brand_plat_filtered_of(view, top_5) ==
    LET rows == BoolIndex(view, [i \in DOMAIN view |-> isin(view[i].Brand, Range(top_5))])
        codes == SetToSortedSeq({PairCode(rows[i]) : i \in DOMAIN rows})
    IN [k \in 1..Len(codes) |->
          LET g == SelectSeq(rows, LAMBDA r : PairCode(r) = codes[k])
          IN [Brand |-> g[1].Brand, Platform |-> g[1].Platform,
              SalesAmount |-> SumCol(g, "SalesAmount")]]

\* ------------------------------------------------------------------------
\* One run of the script (lines 22-217)
\* ------------------------------------------------------------------------
\* what a run leaves when it executes nothing; delivered is st.session_state
\* as the run found it, forced whether the run executed line 36
NotRun ==
    [ran |-> {}, error |-> "", exception |-> "", delivered |-> <<>>, forced |-> FALSE,
     df |-> <<>>, all_months |-> <<>>, selected_months |-> <<>>,
     filtered_df |-> <<>>, current_sales |-> 0, progress_ratio |-> Zero,
     total_profit |-> 0, margin |-> Zero, rem_to_goal |-> 0,
     progress_arg |-> Zero, goal |-> [label |-> "", amount |-> 0],
     monthly_perf |-> <<>>, top_5 |-> <<>>, brand_plat_filtered |-> <<>>,
     csv |-> <<>>]

\* the except branch without st.stop()
HaltsNever(loaded) == FALSE

\* lines 22-26: the except branch reports the error and calls st.stop()
Halts(loaded) == ~loaded.ok

\* the steps before and after st.progress (line 163)
StepsToMetrics == {"sidebar", "filter", "metrics"}
StepsAfterProgress == {"progress", "goal", "monthly", "brands", "export"}

\* ss, years_in, platforms_in, target: the session as the front end delivers
\* it; first: the widgets have no value yet and take their defaults
Script(f, ss, years_in, platforms_in, target, first) ==
    LET loaded == load_data(f)
    IN IF Halts(loaded)
       THEN [ss |-> ss, years |-> {}, platforms |-> {},
             run |-> [NotRun EXCEPT !.error = loaded.error, !.delivered = ss]]
       ELSE
         LET df == loaded.df
             months == all_months(df)
             ss2 == RegisterCheckboxes(InitMonths(ss, months), months)
             sel == selected_months_of(ss2, months)
             years == IF first THEN Range(YearOptions(df)) ELSE years_in
             platforms == IF first THEN Range(PlatformOptions(df)) ELSE platforms_in
             view == filtered_df_of(df, years, Range(sel), platforms)
             sales == SumCol(view, "SalesAmount")
             ratio == progress_ratio_of(sales, target)
             profit == SumCol(view, "Profit")
             rem == rem_to_goal_of(target, sales)
             arg == progress_arg_of(ratio)
             top == top_5_of(view)
             upto ==
                 [NotRun EXCEPT
                    !.ran = StepsToMetrics, !.error = loaded.error,
                    !.delivered = ss, !.forced = NeedsInit(ss),
                    !.df = df, !.all_months = months, !.selected_months = sel,
                    !.filtered_df = view, !.current_sales = sales,
                    !.progress_ratio = ratio, !.total_profit = profit,
                    !.margin = margin_of(profit, sales), !.rem_to_goal = rem,
                    !.progress_arg = arg]
         IN [ss |-> ss2, years |-> years, platforms |-> platforms,
             run |->
               IF ProgressRaises(arg)
               THEN [upto EXCEPT !.exception = "StreamlitAPIException"]
               ELSE [upto EXCEPT
                       !.ran = StepsToMetrics \cup StepsAfterProgress,
                       !.goal = goal_of(rem, sales, target),
                       !.monthly_perf = monthly_perf_of(view),
                       !.top_5 = top,
                       !.brand_plat_filtered = brand_plat_filtered_of(view, top),
                       !.csv = view]]

\* ------------------------------------------------------------------------
\* State
\* ------------------------------------------------------------------------
VARIABLES
    file,             \* the spreadsheet at filepath (line 10)
    session_state,    \* st.session_state: checkbox key -> checked
    year_filter,      \* value of the year multiselect
    platform_filter,  \* value of the platform multiselect
    sales_target,     \* value of the slider
    event,            \* what triggered the last run
    run               \* what the last run computed and rendered

vars == <<file, session_state, year_filter, platform_filter, sales_target, event, run>>

\* the slider positions the model moves between
SliderStops == {min_value + k * slider_step : k \in 0..((max_value - min_value) \div slider_step)}
SliderProbe == {min_value, slider_value} \cap SliderStops

\* the front end delivers the session; the script runs to its end
Apply(ev, ss, years, platforms, target, first) ==
    \E r \in {Script(file, ss, years, platforms, target, first)} :
       /\ session_state' = r.ss
       /\ year_filter' = r.years
       /\ platform_filter' = r.platforms
       /\ sales_target' = target
       /\ event' = ev
       /\ run' = r.run
       /\ UNCHANGED file

Init ==
    /\ file \in Files
    /\ \E r \in {Script(file, <<>>, {}, {}, slider_value, TRUE)} :
          /\ session_state = r.ss
          /\ year_filter = r.years
          /\ platform_filter = r.platforms
          /\ sales_target = slider_value
          /\ event = "start"
          /\ run = r.run

\* the sidebar widgets exist only if the last run got past st.stop()
Rendered == "sidebar" \in run.ran

Flip(S, x) == IF x \in S THEN S \ {x} ELSE S \cup {x}

\* a browser reload: a fresh session, every widget at its default
NewSession ==
    /\ Apply("start", <<>>, {}, {}, slider_value, TRUE)

\* the user reruns the script without touching a widget
Rerun ==
    /\ Apply("rerun", session_state, year_filter, platform_filter, sales_target, FALSE)

MoveSlider(t) ==
    /\ Rendered
    /\ t # sales_target
    /\ Apply("slider", session_state, year_filter, platform_filter, t, FALSE)

ToggleYear(y) ==
    /\ Rendered
    /\ Apply("year", session_state, Flip(year_filter, y), platform_filter, sales_target, FALSE)

TogglePlatform(p) ==
    /\ Rendered
    /\ Apply("platform", session_state, year_filter, Flip(platform_filter, p), sales_target, FALSE)

ClickCheckbox(m) ==
    /\ Rendered
    /\ Apply("checkbox",
             [session_state EXCEPT ![Key(m)] = ~session_state[Key(m)]],
             year_filter, platform_filter, sales_target, FALSE)

\* lines 64-65: on_click runs update_months before the script runs again
ClickAll ==
    /\ Rendered
    /\ Apply("All", update_months(session_state, run.all_months, TRUE),
             year_filter, platform_filter, sales_target, FALSE)

ClickNone ==
    /\ Rendered
    /\ Apply("None", update_months(session_state, run.all_months, FALSE),
             year_filter, platform_filter, sales_target, FALSE)

Next ==
    \/ NewSession
    \/ Rerun
    \/ \E t \in SliderProbe : MoveSlider(t)
    \/ \E y \in Range(YearOptions(run.df)) : ToggleYear(y)
    \/ \E p \in Range(PlatformOptions(run.df)) : TogglePlatform(p)
    \/ \E m \in Range(run.all_months) : ClickCheckbox(m)
    \/ ClickAll
    \/ ClickNone

Spec == Init /\ [][Next]_vars

\* ------------------------------------------------------------------------
\* Properties
\* ------------------------------------------------------------------------
Ran(step) == step \in run.ran

\* the three membership predicates of the filter on a row
InYears(r) == r.Year \in year_filter
InMonths(r) == r.MonthName \in Range(run.selected_months)
InPlatforms(r) == r.Platform \in platform_filter
Matches(r) == InYears(r) /\ InMonths(r) /\ InPlatforms(r)
NumMatched(r) ==
    (IF InYears(r) THEN 1 ELSE 0) + (IF InMonths(r) THEN 1 ELSE 0)
        + (IF InPlatforms(r) THEN 1 ELSE 0)

\* C1: the filtered view holds exactly the rows of the dataset that satisfy
\* all three predicates (year, month name, platform), each unchanged, in the
\* dataset's order.
C1_FilterIsConjunction ==
    Ran("filter") =>
        LET v == run.filtered_df
            d == run.df
        IN /\ {v[k].idx : k \in DOMAIN v} = {i \in DOMAIN d : Matches(d[i])}
           /\ \A k \in DOMAIN v : v[k].idx \in DOMAIN d /\ v[k] = d[v[k].idx]
           /\ \A k \in 1..(Len(v) - 1) : v[k].idx < v[k + 1].idx

\* a view of two rows or more next to a row that meets exactly two of the
\* predicates, after the user changed the selection
C1_Witness ==
    /\ Ran("filter")
    /\ Len(run.filtered_df) >= 2
    /\ \E i \in DOMAIN run.df : NumMatched(run.df[i]) = 2
    /\ event # "start"

AnyEmptySelection ==
    year_filter = {} \/ run.selected_months = <<>> \/ platform_filter = {}

\* C2: whenever one of the three selections is empty the filtered view is
\* empty, and the run that follows the "None" button has an empty view.
C2_EmptySelectionEmptyView ==
    Ran("filter") =>
        /\ AnyEmptySelection => run.filtered_df = <<>>
        /\ event = "None" => run.filtered_df = <<>>

AllYears == {run.df[i].Year : i \in DOMAIN run.df}
AllMonthNames == {run.df[i].MonthName : i \in DOMAIN run.df}
AllPlatforms == {run.df[i].Platform : i \in DOMAIN run.df}

FullSelection ==
    /\ year_filter = AllYears
    /\ Range(run.selected_months) = AllMonthNames
    /\ platform_filter = AllPlatforms

\* C3: a new session starts with the full selection, and under the full
\* selection the sales total of the view is the sales total of the dataset.
C3_FullSelectionRecoversTotal ==
    Ran("metrics") =>
        /\ event = "start" => FullSelection
        /\ FullSelection => run.current_sales = SumCol(run.df, "SalesAmount")

\* the full selection restored by the user on a dataset of several years,
\* months and platforms with a total that is not zero
C3_Witness ==
    /\ Ran("metrics")
    /\ FullSelection
    /\ event = "All"
    /\ Cardinality(AllYears) > 1 /\ Cardinality(AllMonthNames) > 1
    /\ run.current_sales # 0

Max(a, b) == IF a >= b THEN a ELSE b

Abs(a) == IF a < 0 THEN -a ELSE a

RECURSIVE Gcd(_, _)
Gcd(a, b) == IF b = 0 THEN a ELSE Gcd(b, a % b)

\* a quotient with den > 0 in lowest terms; equal quotients reduce to the same
Reduced(q) ==
    LET g == Gcd(Abs(q.num), q.den)
    IN Rat(q.num \div g, q.den \div g)

RatEq(p, q) == Reduced(p) = Reduced(q)

\* C4: gap = max(target - total, 0), surplus = max(total - target, 0), at
\* most one of them is positive, and the dashboard shows the gap exactly when
\* it is positive and otherwise the surplus, which is never negative.
C4_GapXorSurplusShown ==
    Ran("metrics") =>
        LET gap == Max(sales_target - run.current_sales, 0)
            surplus == Max(run.current_sales - sales_target, 0)
        IN /\ run.rem_to_goal = gap
           /\ ~(gap > 0 /\ surplus > 0)
           /\ run.current_sales = sales_target => gap = 0 /\ surplus = 0
           /\ gap > 0 => run.goal = [label |-> "Gap", amount |-> gap]
           /\ gap = 0 => run.goal = [label |-> "Surplus", amount |-> surplus]

\* targets the slider cannot produce, for the defensive branch of line 126
TargetsBelowRange == {0, -min_value}

\* C5: the margin is 0 when the sales total is not positive and
\* profit / sales * 100 otherwise; the progress ratio is 0 for a target that
\* is not positive and sales / target otherwise; no division by zero occurs.
C5_NoDivisionByZero ==
    Ran("metrics") =>
        /\ run.margin.den > 0
        /\ run.progress_ratio.den > 0
        /\ run.current_sales <= 0 => run.margin = Zero
        /\ run.current_sales > 0 =>
              RatEq(run.margin, Rat(run.total_profit * Percent, run.current_sales))
        /\ sales_target > 0 =>
              RatEq(run.progress_ratio, Rat(run.current_sales, sales_target))
        /\ \A t \in TargetsBelowRange : progress_ratio_of(run.current_sales, t) = Zero
        /\ \A t \in SliderProbe :
              LET q == progress_ratio_of(run.current_sales, t)
              IN q.den > 0 /\ RatEq(q, Rat(run.current_sales, t))

\* rows are selected and their sales cancel out: the quotient is not taken
C5_Witness ==
    /\ Ran("metrics")
    /\ run.filtered_df # <<>>
    /\ run.current_sales = 0
    /\ run.total_profit # 0
    /\ run.margin = Zero

RowsOfMonth(view, n) == SelectSeq(view, LAMBDA r : r.MonthNum = n)

\* C6: the monthly totals are in ascending order of month number without a
\* repeated month number, each entry carries the sums of sales and profit
\* over the view's rows of that month number, and an empty view gives no
\* entry; when the totals are computed every month of the view has an entry.
C6_MonthlyTotals ==
    LET mp == run.monthly_perf
        view == run.filtered_df
    IN /\ \A k \in 1..(Len(mp) - 1) : mp[k].MonthNum < mp[k + 1].MonthNum
       /\ \A k \in DOMAIN mp :
             /\ RowsOfMonth(view, mp[k].MonthNum) # <<>>
             /\ mp[k].MonthName = MonthAbbr[mp[k].MonthNum]
             /\ mp[k].SalesAmount = SumCol(RowsOfMonth(view, mp[k].MonthNum), "SalesAmount")
             /\ mp[k].Profit = SumCol(RowsOfMonth(view, mp[k].MonthNum), "Profit")
       /\ view = <<>> => mp = <<>>
       /\ Ran("monthly") =>
             {mp[k].MonthNum : k \in DOMAIN mp} = {view[i].MonthNum : i \in DOMAIN view}

\* a view with the same month in two years next to another month
C6_Witness ==
    /\ Ran("monthly")
    /\ Len(run.monthly_perf) = 1
    /\ Cardinality({run.filtered_df[i].Year : i \in DOMAIN run.filtered_df}) = 2

BrandsOf(view) == {view[i].Brand : i \in DOMAIN view}
BrandTotal(view, b) == SumCol(SelectSeq(view, LAMBDA r : r.Brand = b), "SalesAmount")

\* C7: the top brands are at most 5, fewer only when the view has fewer
\* brands, in descending order of their sales totals, no brand left out has
\* a greater total than a brand kept, and the brand-by-platform breakdown
\* holds only brands that were kept.
C7_TopBrands ==
    Ran("brands") =>
        LET t == run.top_5
            view == run.filtered_df
            kept == Range(t)
        IN /\ Len(t) <= NTop
           /\ Cardinality(kept) = Len(t)
           /\ kept \subseteq BrandsOf(view)
           /\ Len(t) < NTop => Len(t) = Cardinality(BrandsOf(view))
           /\ \A k \in 1..(Len(t) - 1) :
                 BrandTotal(view, t[k]) >= BrandTotal(view, t[k + 1])
           /\ \A b \in BrandsOf(view) \ kept : \A c \in kept :
                 BrandTotal(view, b) <= BrandTotal(view, c)
           /\ \A k \in DOMAIN run.brand_plat_filtered :
                 run.brand_plat_filtered[k].Brand \in kept

\* more than 5 brands in the view, the first brand (two rows) among the
\* kept ones, a brand left out, and unequal totals among the kept
C7_Witness ==
    /\ Ran("brands")
    /\ Cardinality(BrandsOf(run.filtered_df)) > NTop
    /\ Len(run.top_5) = NTop
    /\ BrandTotal(run.filtered_df, run.top_5[1]) > BrandTotal(run.filtered_df, run.top_5[NTop])
    /\ \E k \in DOMAIN run.brand_plat_filtered :
          run.brand_plat_filtered[k].Brand \notin BrandsOf(run.filtered_df) \ Range(run.top_5)

\* C8: when loading fails the error is reported and the run stops there:
\* no dataset and no step of the sidebar, filter, metrics, charts or export.
C8_LoadFailureHalts ==
    ~load_data(file).ok =>
        /\ run.error # ""
        /\ run.ran = {}
        /\ run = [NotRun EXCEPT !.error = run.error]
        /\ session_state = <<>> /\ year_filter = {} /\ platform_filter = {}

\* the spreadsheet without a Brand column, run once more by the user
C8_Witness ==
    /\ file.exists /\ file.readable /\ "Brand" \notin file.columns
    /\ run.error = "KeyError"
    /\ event = "rerun"

\* C9: the checkboxes are forced to checked only by the first run of a
\* session; every later run leaves each month as the user's last click or
\* All/None toggle left it.
C9_MonthsKeptAfterFirstRun ==
    Ran("sidebar") =>
        /\ run.forced /\ run.all_months # <<>> => event = "start"
        /\ event # "start" =>
              \A m \in Range(run.all_months) :
                 /\ Key(m) \in DOMAIN run.delivered
                 /\ session_state[Key(m)] = run.delivered[Key(m)]

\* C10: the value handed to st.progress lies in [0, 1] and the call does
\* not raise.
C10_ProgressArgInUnitInterval ==
    Ran("metrics") =>
        /\ run.progress_arg.den > 0
        /\ 0 <= run.progress_arg.num
        /\ run.progress_arg.num <= run.progress_arg.den
        /\ run.exception = ""

====
